---- MODULE Spec2Model ----
(***************************************************************************)
(* The Chronos chat bridge: the TELEGRAM_MESSAGE_RECEIVED handler of       *)
(* src/src/plugin.ts and the DISCORD_MESSAGE_RECEIVED handler of           *)
(* src/DISCORD_CHRONOS_INTEGRATION_INSTRUCTIONS.md.                        *)
(*                                                                         *)
(* A text is a sequence of one-character strings.  The JavaScript string   *)
(* operations the handlers use (trim, split, startsWith, substring,        *)
(* lastIndexOf, join, the RegExp match) are operators on such sequences.   *)
(* The fixed notices, whose characters no code inspects, are one-token     *)
(* texts.                                                                  *)
(***************************************************************************)
EXTENDS Integers, Sequences, FiniteSets, TLC

VARIABLES
  platform,     \* which handler runs: "telegram" or "discord"
  hasPhoto,     \* the event carries a photo / an image attachment
  hasCallback,  \* params.callback is set
  pc,           \* the handler's position
  resume,       \* where the handler continues when the awaited send resolves
  imageFile,    \* the temp image file exists on disk
  stdout,       \* the subprocess's standard output
  questions,    \* const questions: string[]
  answers,      \* const answers: string[]
  i,            \* the record loop's counter
  j,            \* the paragraph / chunk loop's counter
  answerChunks, \* Discord: const answerChunks: string[]
  calls,        \* every invocation of params.callback, in order, with its outcome
  error,        \* the exception the catch block received
  proc,         \* the position of the subprocess this invocation started
  cleared,      \* the subprocess's clear_success
  patterns,     \* the images whose graphs the subprocess's pattern discovery read
  self,         \* which invocation the variables above belong to: the running one
  other,        \* the variables above of the invocation that is suspended
  neo4j,        \* the Neo4j database: the images whose graphs it holds
  userId,       \* params.ctx.from?.id?.toString() || 'unknown'
  imagePath,    \* const imagePath: the user id and the timestamp it is built from
  reported,     \* the counts the "Successfully sent N hypothesis results" log gave
  clock,        \* Date.now(): the millisecond clock
  profile,      \* the chunk loop on its own: the message limit and the label reserve
  unconsumed    \* the chunk loop on its own: let remainingAnswer

vars == <<platform, hasPhoto, hasCallback, pc, resume, imageFile, stdout,
          questions, answers, i, j, answerChunks, calls, error, proc, cleared,
          patterns, self, other, neo4j, userId, imagePath, reported, clock,
          profile, unconsumed>>

\* what no step of the handler's own code touches: the subprocess, the other
\* invocation, the database, the clock and the chunk loop taken on its own
outside == <<proc, cleared, patterns, self, other, neo4j, clock, profile,
             unconsumed>>

\* the locals only the download and the end of the record loop assign
assignedOnce == <<userId, imagePath, reported>>

(***************************************************************************)
(* JavaScript string operations                                            *)
(***************************************************************************)

Min(a, b) == IF a <= b THEN a ELSE b

Max(a, b) == IF a >= b THEN a ELSE b

Rep(c, n) == [k \in 1..n |-> c]

\* the characters String.prototype.trim removes
WhiteSpace == {" ", "\n", "\t", "\r"}

\* s.substring(from, to): 0-based, end exclusive, both clamped to the length
substring(s, from, to) ==
  LET a == Min(Max(from, 0), Len(s))
      b == Min(Max(to, 0), Len(s))
  IN  SubSeq(s, Min(a, b) + 1, Max(a, b))

\* pat occurs in s at the 1-based position p
MatchAt(s, pat, p) ==
  /\ p >= 1
  /\ p + Len(pat) - 1 <= Len(s)
  /\ \A k \in 1..Len(pat) : s[p + k - 1] = pat[k]

\* s.startsWith(pat)
startsWith(s, pat) == MatchAt(s, pat, 1)

\* the 1-based positions at which the non-empty pat occurs in s
Occurrences(s, pat) == {p \in 1..Len(s) : s[p] = pat[1] /\ MatchAt(s, pat, p)}

\* s.indexOf(pat): 0-based offset of the first occurrence, -1 when there is none
indexOf(s, pat) ==
  LET occ == Occurrences(s, pat)
  IN  IF occ = {} THEN -1 ELSE (CHOOSE p \in occ : \A r \in occ : p <= r) - 1

\* s.lastIndexOf(pat): 0-based offset of the last occurrence, -1 when there is none
lastIndexOf(s, pat) ==
  LET occ == Occurrences(s, pat)
  IN  IF occ = {} THEN -1 ELSE (CHOOSE p \in occ : \A r \in occ : p >= r) - 1

\* s.trim()
trim(s) ==
  LET n == Len(s)
      lead == CHOOSE k \in 0..n :
                /\ \A m \in 1..k : s[m] \in WhiteSpace
                /\ (k = n \/ s[k + 1] \notin WhiteSpace)
      trail == CHOOSE k \in 0..n :
                /\ \A m \in (n - k + 1)..n : s[m] \in WhiteSpace
                /\ (k = n \/ s[n - k] \notin WhiteSpace)
  IN  IF lead = n THEN <<>> ELSE SubSeq(s, lead + 1, n - trail)

\* s.split(sep) for a non-empty separator string
RECURSIVE split(_, _)
split(s, sep) ==
  LET at == indexOf(s, sep)
  IN  IF at = -1
      THEN <<s>>
      ELSE <<SubSeq(s, 1, at)>> \o split(SubSeq(s, at + Len(sep) + 1, Len(s)), sep)

\* parts.join(sep)
RECURSIVE join(_, _)
join(parts, sep) ==
  IF Len(parts) = 0 THEN <<>>
  ELSE IF Len(parts) = 1 THEN parts[1]
  ELSE parts[1] \o sep \o join(Tail(parts), sep)

\* parts.filter(p => p.trim().length > 0)
filterNonBlank(parts) == SelectSeq(parts, LAMBDA p : Len(trim(p)) > 0)

\* the decimal digits of n >= 0, as `${n}` prints them
RECURSIVE Digits(_)
Digits(n) ==
  LET d == <<"0", "1", "2", "3", "4", "5", "6", "7", "8", "9">>
  IN  IF n < 10 THEN <<d[n + 1]>> ELSE Digits(n \div 10) \o <<d[(n % 10) + 1]>>

(***************************************************************************)
(* Literals of the two handlers                                            *)
(***************************************************************************)

TELEGRAM_RESULTS_START == <<"T", "E", "L", "E", "G", "R", "A", "M", "_", "R", "E", "S", "U", "L", "T", "S", "_", "S", "T", "A", "R", "T">>

TELEGRAM_RESULTS_END == <<"T", "E", "L", "E", "G", "R", "A", "M", "_", "R", "E", "S", "U", "L", "T", "S", "_", "E", "N", "D">>

DISCORD_RESULTS_START == <<"D", "I", "S", "C", "O", "R", "D", "_", "R", "E", "S", "U", "L", "T", "S", "_", "S", "T", "A", "R", "T">>

DISCORD_RESULTS_END == <<"D", "I", "S", "C", "O", "R", "D", "_", "R", "E", "S", "U", "L", "T", "S", "_", "E", "N", "D">>

QUESTION_ == <<"Q", "U", "E", "S", "T", "I", "O", "N", "_">>

ANSWER_ == <<"A", "N", "S", "W", "E", "R", "_">>

\* ':::', the separator between a tag and its text
FieldSep == <<":", ":", ":">>

\* '---', the separator after each question/answer pair
PairSep == <<"-", "-", "-">>

NL == <<"\n">>

\* '\n\n', which joins the answer lines and splits the answer into paragraphs
BlankLine == <<"\n", "\n">>

\* the {80} of the two '=' lines in the RegExp
SepWidth == 80

StartMarker(p) == IF p = "telegram" THEN TELEGRAM_RESULTS_START ELSE DISCORD_RESULTS_START

EndMarker(p) == IF p = "telegram" THEN TELEGRAM_RESULTS_END ELSE DISCORD_RESULTS_END

(***************************************************************************)
(* Extraction: stdout.match(/X_RESULTS_START\n={80}\n([\s\S]*?)\n={80}\n   *)
(* X_RESULTS_END/).  The match starts at the leftmost occurrence of the    *)
(* opening from which a closing is found, and the lazy capture ends at the *)
(* first closing after it.                                                 *)
(***************************************************************************)

\* Opening with ={79} for ={80}
OpeningShort(start) == start \o NL \o Rep("=", SepWidth - 1) \o NL

Opening(start) == start \o NL \o Rep("=", SepWidth) \o NL

Closing(end) == NL \o Rep("=", SepWidth) \o NL \o end

\* resultsMatch that gives no match when a marker occurs more than once
resultsMatchUnique(out, start, end) ==
  LET open == Opening(start)
      close == Closing(end)
      closes == Occurrences(out, close)
      opens == {p \in Occurrences(out, open) : \E q \in closes : q >= p + Len(open)}
  IN  IF opens = {} \/ Cardinality(Occurrences(out, start)) > 1
                   \/ Cardinality(Occurrences(out, end)) > 1
      THEN [matched |-> FALSE, body |-> <<>>]
      ELSE LET p == CHOOSE x \in opens : \A y \in opens : x <= y
               from == p + Len(open)
               after == {q \in closes : q >= from}
               q == CHOOSE x \in after : \A y \in after : x <= y
           IN  [matched |-> TRUE, body |-> SubSeq(out, from, q - 1)]

\* resultsMatch with a greedy capture: it ends at the last closing
resultsMatchGreedy(out, start, end) ==
  LET open == Opening(start)
      close == Closing(end)
      closes == Occurrences(out, close)
      opens == {p \in Occurrences(out, open) : \E q \in closes : q >= p + Len(open)}
  IN  IF opens = {}
      THEN [matched |-> FALSE, body |-> <<>>]
      ELSE LET p == CHOOSE x \in opens : \A y \in opens : x <= y
               from == p + Len(open)
               after == {q \in closes : q >= from}
               q == CHOOSE x \in after : \A y \in after : x >= y
           IN  [matched |-> TRUE, body |-> SubSeq(out, from, q - 1)]

resultsMatch(out, start, end) ==
  LET open == Opening(start)
      close == Closing(end)
      closes == Occurrences(out, close)
      opens == {p \in Occurrences(out, open) : \E q \in closes : q >= p + Len(open)}
  IN  IF opens = {}
      THEN [matched |-> FALSE, body |-> <<>>]
      ELSE LET p == CHOOSE x \in opens : \A y \in opens : x <= y
               from == p + Len(open)
               after == {q \in closes : q >= from}
               q == CHOOSE x \in after : \A y \in after : x <= y
           IN  [matched |-> TRUE, body |-> SubSeq(out, from, q - 1)]

\* if (resultsMatch && resultsMatch[1]): an empty capture is falsy
blockFound(out, p) ==
  LET m == resultsMatch(out, StartMarker(p), EndMarker(p))
  IN  m.matched /\ Len(m.body) > 0

resultsBlock(out, p) == resultsMatch(out, StartMarker(p), EndMarker(p)).body

(***************************************************************************)
(* Parsing                                                                 *)
(***************************************************************************)

\* line.split(':::')[1]; undefined and '' are both falsy and are both <<>> here
secondField(line) ==
  LET parts == split(line, FieldSep)
  IN  IF Len(parts) >= 2 THEN parts[2] ELSE <<>>

\* Telegram: resultsBlock.split('---').filter(pair => pair.trim().length > 0)
qaPairs(block) == filterNonBlank(split(block, PairSep))

\* scanLine with the first question of a group kept
scanLineFirstQuestion(st, line) ==
  IF startsWith(line, QUESTION_)
  THEN IF Len(secondField(line)) > 0 /\ st.currentQuestion = <<>>
       THEN [st EXCEPT !.currentQuestion = trim(secondField(line))]
       ELSE st
  ELSE IF startsWith(line, ANSWER_)
  THEN [st EXCEPT
          !.currentAnswerLines =
             IF Len(secondField(line)) > 0
             THEN Append(@, trim(secondField(line)))
             ELSE @,
          !.inAnswer = TRUE]
  ELSE IF st.inAnswer /\ Len(trim(line)) > 0
  THEN [st EXCEPT !.currentAnswerLines = Append(@, trim(line))]
  ELSE st

\* scanLine with a new answer buffer at every ANSWER_ line
scanLineRestart(st, line) ==
  IF startsWith(line, QUESTION_)
  THEN IF Len(secondField(line)) > 0
       THEN [st EXCEPT !.currentQuestion = trim(secondField(line))]
       ELSE st
  ELSE IF startsWith(line, ANSWER_)
  THEN [st EXCEPT
          !.currentAnswerLines =
             IF Len(secondField(line)) > 0
             THEN <<trim(secondField(line))>>
             ELSE <<>>,
          !.inAnswer = TRUE]
  ELSE IF st.inAnswer /\ Len(trim(line)) > 0
  THEN [st EXCEPT !.currentAnswerLines = Append(@, trim(line))]
  ELSE st

\* Telegram: the body of `for (const line of lines)`, on the scan state st
scanLine(st, line) ==
  IF startsWith(line, QUESTION_)
  THEN IF Len(secondField(line)) > 0
       THEN [st EXCEPT !.currentQuestion = trim(secondField(line))]
       ELSE st
  ELSE IF startsWith(line, ANSWER_)
  THEN [st EXCEPT
          !.currentAnswerLines =
             IF Len(secondField(line)) > 0
             THEN Append(@, trim(secondField(line)))
             ELSE @,
          !.inAnswer = TRUE]
  ELSE IF st.inAnswer /\ Len(trim(line)) > 0
  THEN [st EXCEPT !.currentAnswerLines = Append(@, trim(line))]
  ELSE st

RECURSIVE scanLines(_, _)
scanLines(st, lines) ==
  IF lines = <<>> THEN st ELSE scanLines(scanLine(st, Head(lines)), Tail(lines))

\* Telegram: one pass of `for (const pair of qaPairs)` up to the two pushes
scanPair(pair) ==
  scanLines([currentQuestion |-> <<>>, currentAnswerLines |-> <<>>, inAnswer |-> FALSE],
            split(trim(pair), NL))

\* Telegram: the two pushes at the end of a pass, on the arrays acc
pushPair(acc, pair) ==
  LET st == scanPair(pair)
  IN  [questions |-> IF Len(st.currentQuestion) > 0
                     THEN Append(acc.questions, st.currentQuestion)
                     ELSE acc.questions,
       answers   |-> IF Len(st.currentAnswerLines) > 0
                     THEN Append(acc.answers, join(st.currentAnswerLines, BlankLine))
                     ELSE acc.answers]

RECURSIVE pushPairs(_, _)
pushPairs(acc, pairs) ==
  IF pairs = <<>> THEN acc ELSE pushPairs(pushPair(acc, Head(pairs)), Tail(pairs))

\* Telegram: questions and answers after the loop over qaPairs
telegramParse(block) ==
  pushPairs([questions |-> <<>>, answers |-> <<>>], qaPairs(block))

\* Discord: the body of `for (const line of lines)`, on the arrays acc
discordLine(acc, line) ==
  IF startsWith(line, QUESTION_)
  THEN IF Len(secondField(line)) > 0
       THEN [acc EXCEPT !.questions = Append(@, trim(secondField(line)))]
       ELSE acc
  ELSE IF startsWith(line, ANSWER_)
  THEN IF Len(secondField(line)) > 0
       THEN [acc EXCEPT !.answers = Append(@, trim(secondField(line)))]
       ELSE acc
  ELSE acc

RECURSIVE discordLines(_, _)
discordLines(acc, lines) ==
  IF lines = <<>> THEN acc ELSE discordLines(discordLine(acc, Head(lines)), Tail(lines))

\* Discord: questions and answers after the loop over resultsBlock.split('\n')
discordParse(block) ==
  discordLines([questions |-> <<>>, answers |-> <<>>], split(block, NL))

parse(block, p) == IF p = "telegram" THEN telegramParse(block) ELSE discordParse(block)

(***************************************************************************)
(* Messages                                                                *)
(***************************************************************************)

AnswerLabel == <<"A", "n", "s", "w", "e", "r", ":", " ">>

ContinuationLabel == <<"C", "o", "n", "t", "i", "n", "u", "a", "t", "i", "o", "n", ":", " ">>

\* the fixed notices
AckNotice == <<"Processing your image through Chronos pipeline...">>

CompleteNotice == <<"Chronos Analysis Complete!">>

\* the no-results notice with the text of the no-block notice
NoResultsNoticeSame == <<"Processing completed but results could not be parsed.">>

NoResultsNotice == <<"Processing completed but no hypothesis results were generated.">>

NoBlockNotice == <<"Processing completed but results could not be parsed.">>

ErrorNotice(e) == <<"Error processing image: ", e>>

\* `\n${i + 1}. ${question}\n\n`
headerText(n, question) == NL \o Digits(n) \o <<".", " ">> \o question \o BlankLine

\* `\n${i + 1}. ${question}\n\nAnswer: ${text}`
recordText(n, question, text) == headerText(n, question) \o AnswerLabel \o text

\* paragraphs cut down to the first paragraph
paragraphsFirstOnly(answer) ==
  SubSeq(filterNonBlank(split(answer, BlankLine)), 1, 1)

\* Telegram: answer.split('\n\n').filter(p => p.trim().length > 0)
paragraphs(answer) == filterNonBlank(split(answer, BlankLine))

\* `Continuation: ${paragraphs[j]}`
continuationText(paragraph) == ContinuationLabel \o paragraph

(***************************************************************************)
(* The handler                                                             *)
(***************************************************************************)

\* Invoke without the await: the handler goes on while the call is pending
InvokeNoAwait(text, kind, rec, next) ==
  IF hasCallback
  THEN /\ calls' = Append(calls, [text |-> text, kind |-> kind, rec |-> rec,
                                  status |-> "pending"])
       /\ pc' = next
       /\ resume' = resume
  ELSE /\ calls' = calls
       /\ pc' = next
       /\ resume' = resume

\* await params.callback({text, source}) under `if (params.callback)`: the call
\* is made and the handler waits for it to settle before it goes on at next
Invoke(text, kind, rec, next) ==
  IF hasCallback
  THEN /\ calls' = Append(calls, [text |-> text, kind |-> kind, rec |-> rec,
                                  status |-> "pending"])
       /\ pc' = "await"
       /\ resume' = next
  ELSE /\ calls' = calls
       /\ pc' = next
       /\ resume' = resume

\* the loop bound Math.min(questions.length, answers.length)
loopBound == Min(Len(questions), Len(answers))

\* Receive without the acknowledgment
ReceiveNoAck ==
  /\ pc = "start"
  /\ pc' = IF hasPhoto THEN "link" ELSE "done"
  /\ UNCHANGED <<platform, hasPhoto, hasCallback, resume, imageFile, stdout,
                 questions, answers, i, j, answerChunks, calls, error>>
  /\ UNCHANGED assignedOnce
  /\ UNCHANGED outside

\* the event arrives: without a photo the handler does nothing, with one it
\* sends the acknowledgment
Receive ==
  /\ pc = "start"
  /\ IF hasPhoto
     THEN Invoke(AckNotice, "ack", 0, "link")
     ELSE pc' = "done" /\ UNCHANGED <<calls, resume>>
  /\ UNCHANGED <<platform, hasPhoto, hasCallback, imageFile, stdout, questions,
                 answers, i, j, answerChunks, error>>
  /\ UNCHANGED assignedOnce
  /\ UNCHANGED outside

\* bot.getFileLink resolves: the path is built from the user id and Date.now(),
\* and fs.createWriteStream(imagePath) creates the file
GetFileLink ==
  /\ pc = "link"
  /\ imagePath' = <<userId, clock>>
  /\ imageFile' = TRUE
  /\ pc' = "download"
  /\ UNCHANGED <<platform, hasPhoto, hasCallback, resume, stdout, questions,
                 answers, i, j, answerChunks, calls, error>>
  /\ UNCHANGED <<userId, reported>>
  /\ UNCHANGED outside

\* bot.getFileLink rejects: no path, no file
GetFileLinkFail ==
  /\ pc = "link"
  /\ error' = "getFileLink failed"
  /\ pc' = "catch"
  /\ UNCHANGED <<platform, hasPhoto, hasCallback, resume, imageFile, stdout,
                 questions, answers, i, j, answerChunks, calls>>
  /\ UNCHANGED assignedOnce
  /\ UNCHANGED outside

\* the image is written to the temp file: file.on('finish')
DownloadOk ==
  /\ pc = "download"
  /\ pc' = "exec"
  /\ UNCHANGED <<platform, hasPhoto, hasCallback, resume, imageFile, stdout,
                 questions, answers, i, j, answerChunks, calls, error>>
  /\ UNCHANGED assignedOnce
  /\ UNCHANGED outside

\* the download fails: the 'error' listener unlinks the file and rejects
DownloadFail ==
  /\ pc = "download"
  /\ imageFile' = FALSE
  /\ error' = "download failed"
  /\ pc' = "catch"
  /\ UNCHANGED <<platform, hasPhoto, hasCallback, resume, stdout, questions,
                 answers, i, j, answerChunks, calls>>
  /\ UNCHANGED assignedOnce
  /\ UNCHANGED outside

\* execAsync resolves with the subprocess's output
ExecOk(out) ==
  /\ pc = "exec"
  /\ stdout' = out
  /\ pc' = "parse"
  /\ UNCHANGED <<platform, hasPhoto, hasCallback, resume, imageFile, questions,
                 answers, i, j, answerChunks, calls, error>>
  /\ UNCHANGED assignedOnce
  /\ UNCHANGED outside

\* execAsync rejects: non-zero exit, timeout or maxBuffer exceeded
ExecFail ==
  /\ pc = "exec"
  /\ error' = "Command failed"
  /\ pc' = "catch"
  /\ UNCHANGED <<platform, hasPhoto, hasCallback, resume, imageFile, stdout,
                 questions, answers, i, j, answerChunks, calls>>
  /\ UNCHANGED assignedOnce
  /\ UNCHANGED outside

\* hasRecords with || for &&
hasRecordsEither(qs, as) == Len(qs) > 0 \/ Len(as) > 0

\* if (questions.length > 0 && answers.length > 0)
hasRecords(qs, as) == Len(qs) > 0 /\ Len(as) > 0

\* Parse with questions and answers declared outside the handler: one pair of
\* arrays for every invocation
ParseShared ==
  /\ pc = "parse"
  /\ IF blockFound(stdout, platform)
     THEN LET parsed == parse(resultsBlock(stdout, platform), platform)
          IN  /\ questions' = parsed.questions
              /\ answers' = parsed.answers
              /\ other' = IF other = <<>> THEN other
                          ELSE [other EXCEPT !.questions = parsed.questions,
                                             !.answers = parsed.answers]
              /\ IF hasRecords(parsed.questions, parsed.answers)
                 THEN IF platform = "discord"
                      THEN Invoke(CompleteNotice, "complete", 0, "loop")
                      ELSE pc' = "loop" /\ UNCHANGED <<calls, resume>>
                 ELSE Invoke(NoResultsNotice, "noresults", 0, "cleanup")
     ELSE /\ Invoke(NoBlockNotice, "noblock", 0, "cleanup")
          /\ UNCHANGED <<questions, answers, other>>
  /\ i' = 0
  /\ UNCHANGED <<platform, hasPhoto, hasCallback, imageFile, stdout, j,
                 answerChunks, error>>
  /\ UNCHANGED assignedOnce
  /\ UNCHANGED <<proc, cleared, patterns, self, neo4j, clock, profile, unconsumed>>

\* the match, the parse and the branch on what was parsed
Parse ==
  /\ pc = "parse"
  /\ IF blockFound(stdout, platform)
     THEN LET parsed == parse(resultsBlock(stdout, platform), platform)
          IN  /\ questions' = parsed.questions
              /\ answers' = parsed.answers
              /\ IF hasRecords(parsed.questions, parsed.answers)
                 THEN IF platform = "discord"
                      THEN Invoke(CompleteNotice, "complete", 0, "loop")
                      ELSE pc' = "loop" /\ UNCHANGED <<calls, resume>>
                 ELSE Invoke(NoResultsNotice, "noresults", 0, "cleanup")
     ELSE /\ Invoke(NoBlockNotice, "noblock", 0, "cleanup")
          /\ UNCHANGED <<questions, answers>>
  /\ i' = 0
  /\ UNCHANGED <<platform, hasPhoto, hasCallback, imageFile, stdout, j,
                 answerChunks, error>>
  /\ UNCHANGED assignedOnce
  /\ UNCHANGED outside

\* TelegramRecord with the no-results notice sent when the loop ends
TelegramRecordThenNotice ==
  /\ pc = "loop"
  /\ platform = "telegram"
  /\ IF i < loopBound
     THEN LET question == questions[i + 1]
              answer == answers[i + 1]
          IN  /\ IF Len(paragraphs(answer)) = 0
                 THEN Invoke(recordText(i + 1, question, answer), "record", i + 1, "cont")
                 ELSE Invoke(recordText(i + 1, question, paragraphs(answer)[1]),
                             "record", i + 1, "cont")
              /\ j' = 1
              /\ UNCHANGED reported
     ELSE /\ Invoke(NoResultsNotice, "noresults", 0, "cleanup")
          /\ reported' = Append(reported, Len(questions))
          /\ UNCHANGED j
  /\ UNCHANGED <<platform, hasPhoto, hasCallback, imageFile, stdout, questions,
                 answers, i, answerChunks, error>>
  /\ UNCHANGED <<userId, imagePath>>
  /\ UNCHANGED outside

\* Telegram: the head of the record loop and the first message of a record; when
\* the loop ends, the log line "Successfully sent ${questions.length} ..."
TelegramRecord ==
  /\ pc = "loop"
  /\ platform = "telegram"
  /\ IF i < loopBound
     THEN LET question == questions[i + 1]
              answer == answers[i + 1]
          IN  /\ IF Len(paragraphs(answer)) = 0
                 THEN Invoke(recordText(i + 1, question, answer), "record", i + 1, "cont")
                 ELSE Invoke(recordText(i + 1, question, paragraphs(answer)[1]),
                             "record", i + 1, "cont")
              /\ j' = 1
              /\ UNCHANGED reported
     ELSE /\ pc' = "cleanup"
          /\ reported' = Append(reported, Len(questions))
          /\ UNCHANGED <<calls, resume, j>>
  /\ UNCHANGED <<platform, hasPhoto, hasCallback, imageFile, stdout, questions,
                 answers, i, answerChunks, error>>
  /\ UNCHANGED <<userId, imagePath>>
  /\ UNCHANGED outside

\* Telegram: for (let j = 1; j < paragraphs.length; j++), then i++
TelegramContinuation ==
  /\ pc = "cont"
  /\ platform = "telegram"
  /\ IF j < Len(paragraphs(answers[i + 1]))
     THEN /\ Invoke(continuationText(paragraphs(answers[i + 1])[j + 1]),
                    "continuation", i + 1, "cont")
          /\ j' = j + 1
          /\ i' = i
     ELSE /\ i' = i + 1
          /\ pc' = "loop"
          /\ UNCHANGED <<calls, resume, j>>
  /\ UNCHANGED <<platform, hasPhoto, hasCallback, imageFile, stdout, questions,
                 answers, answerChunks, error>>
  /\ UNCHANGED assignedOnce
  /\ UNCHANGED outside

\* fs.unlinkSync(imagePath) in its own try/catch
Cleanup ==
  /\ pc = "cleanup"
  /\ imageFile' = FALSE
  /\ pc' = "done"
  /\ UNCHANGED <<platform, hasPhoto, hasCallback, resume, stdout, questions,
                 answers, i, j, answerChunks, calls, error>>
  /\ UNCHANGED assignedOnce
  /\ UNCHANGED outside

\* Catch without the error notice
CatchSilent ==
  /\ pc = "catch"
  /\ pc' = "done"
  /\ UNCHANGED <<platform, hasPhoto, hasCallback, resume, imageFile, stdout,
                 questions, answers, i, j, answerChunks, calls, error>>
  /\ UNCHANGED assignedOnce
  /\ UNCHANGED outside

\* the catch block: the error notice
Catch ==
  /\ pc = "catch"
  /\ Invoke(ErrorNotice(error), "error", 0, "done")
  /\ UNCHANGED <<platform, hasPhoto, hasCallback, imageFile, stdout, questions,
                 answers, i, j, answerChunks, error>>
  /\ UNCHANGED assignedOnce
  /\ UNCHANGED outside

\* the pending call settles: the platform delivered the message
CallbackResolve ==
  /\ pc = "await"
  /\ calls' = [calls EXCEPT ![Len(calls)].status = "resolved"]
  /\ pc' = resume
  /\ UNCHANGED <<platform, hasPhoto, hasCallback, resume, imageFile, stdout,
                 questions, answers, i, j, answerChunks, error>>
  /\ UNCHANGED assignedOnce
  /\ UNCHANGED outside

\* CallbackReject with the rejection swallowed: the handler goes on
CallbackRejectSwallowed ==
  /\ pc = "await"
  /\ calls' = [calls EXCEPT ![Len(calls)].status = "rejected"]
  /\ pc' = resume
  /\ UNCHANGED <<platform, hasPhoto, hasCallback, resume, imageFile, stdout,
                 questions, answers, i, j, answerChunks, error>>
  /\ UNCHANGED assignedOnce
  /\ UNCHANGED outside

\* the pending call rejects: inside the try the exception reaches the catch
\* block, inside the catch block it rejects the handler's own promise
CallbackReject ==
  /\ pc = "await"
  /\ calls' = [calls EXCEPT ![Len(calls)].status = "rejected"]
  /\ IF calls[Len(calls)].kind = "error"
     THEN pc' = "rejected" /\ error' = error
     ELSE pc' = "catch" /\ error' = "send failed"
  /\ UNCHANGED <<platform, hasPhoto, hasCallback, resume, imageFile, stdout,
                 questions, answers, i, j, answerChunks>>
  /\ UNCHANGED assignedOnce
  /\ UNCHANGED outside

(***************************************************************************)
(* Discord: the length-bounded splitting and the record loop               *)
(***************************************************************************)

\* const DISCORD_MAX_LENGTH = 1900
DISCORD_MAX_LENGTH == 1900

\* the 50 of `DISCORD_MAX_LENGTH - 50`
LabelReserve == 50

\* breakPoint > chunkSize * 0.7, in tenths
BreakTenths == 7

chunkSize == DISCORD_MAX_LENGTH - LabelReserve

\* the two numbers the chunk loop is written with
DiscordProfile == [maxMessageLength |-> DISCORD_MAX_LENGTH, reserveForLabel |-> LabelReserve]

AnswerPart1 == <<"A", "n", "s", "w", "e", "r", " ", "(", "p", "a", "r", "t", " ", "1", ")", ":">>

AnswerPart == <<"A", "n", "s", "w", "e", "r", " ", "(", "p", "a", "r", "t", " ">>

PartClose == <<")", ":", " ">>

\* `\n${i + 1}. ${question}\n\nAnswer (part 1):`
partOneText(n, question) == headerText(n, question) \o AnswerPart1

\* j === 0 ? '' : `Answer (part ${j + 1}): `
chunkPrefix(k) == IF k = 0 THEN <<>> ELSE AnswerPart \o Digits(k + 1) \o PartClose

\* cutAt with >= for > in the breakpoint test
cutAtInclusive(remainingAnswer, size) ==
  LET chunk == substring(remainingAnswer, 0, size)
      lastPeriod == lastIndexOf(chunk, <<".", " ">>)
      lastNewline == lastIndexOf(chunk, NL)
      breakPoint == Max(lastPeriod, lastNewline)
  IN  IF Len(remainingAnswer) > size /\ breakPoint * 10 >= size * BreakTenths
      THEN substring(chunk, 0, breakPoint + 1)
      ELSE chunk

\* one pass of the while loop with `size` for chunkSize: the chunk cut from
\* remainingAnswer
cutAt(remainingAnswer, size) ==
  LET chunk == substring(remainingAnswer, 0, size)
      lastPeriod == lastIndexOf(chunk, <<".", " ">>)
      lastNewline == lastIndexOf(chunk, NL)
      breakPoint == Max(lastPeriod, lastNewline)
  IN  IF Len(remainingAnswer) > size /\ breakPoint * 10 > size * BreakTenths
      THEN substring(chunk, 0, breakPoint + 1)
      ELSE chunk

\* one pass of the while loop: the chunk cut from remainingAnswer
nextChunk(remainingAnswer) == cutAt(remainingAnswer, chunkSize)

\* restAfter one character too far
restAfterSkipping(remainingAnswer, chunk) ==
  trim(substring(remainingAnswer, Len(chunk) + 1, Len(remainingAnswer)))

\* restAfter with the chunk's last character left in the remainder
restAfterOverlapping(remainingAnswer, chunk) ==
  trim(substring(remainingAnswer, Len(chunk) - 1, Len(remainingAnswer)))

\* remainingAnswer.substring(chunk.length).trim()
restAfter(remainingAnswer, chunk) ==
  trim(substring(remainingAnswer, Len(chunk), Len(remainingAnswer)))

\* while (remainingAnswer.length > 0) { ... answerChunks.push(chunk) ... }
RECURSIVE chunkLoop(_)
chunkLoop(remainingAnswer) ==
  IF Len(remainingAnswer) = 0
  THEN <<>>
  ELSE <<nextChunk(remainingAnswer)>>
         \o chunkLoop(restAfter(remainingAnswer, nextChunk(remainingAnswer)))

\* DiscordRecord with >= for > in the length test
DiscordRecordAtLimit ==
  /\ pc = "loop"
  /\ platform = "discord"
  /\ IF i < loopBound
     THEN LET question == questions[i + 1]
              answer == answers[i + 1]
              messageText == recordText(i + 1, question, answer)
          IN  /\ UNCHANGED reported
              /\ IF Len(messageText) >= DISCORD_MAX_LENGTH
                 THEN /\ Invoke(partOneText(i + 1, question), "part1", i + 1, "chunks")
                      /\ answerChunks' = chunkLoop(answer)
                      /\ j' = 0
                 ELSE /\ Invoke(messageText, "record", i + 1, "sep")
                      /\ UNCHANGED <<answerChunks, j>>
     ELSE /\ pc' = "cleanup"
          /\ reported' = Append(reported, Len(questions))
          /\ UNCHANGED <<calls, resume, answerChunks, j>>
  /\ UNCHANGED <<platform, hasPhoto, hasCallback, imageFile, stdout, questions,
                 answers, i, error>>
  /\ UNCHANGED <<userId, imagePath>>
  /\ UNCHANGED outside

\* Discord: the head of the record loop and the first message of a record; when
\* the loop ends, the log line "Successfully sent ${questions.length} ..."
DiscordRecord ==
  /\ pc = "loop"
  /\ platform = "discord"
  /\ IF i < loopBound
     THEN LET question == questions[i + 1]
              answer == answers[i + 1]
              messageText == recordText(i + 1, question, answer)
          IN  /\ UNCHANGED reported
              /\ IF Len(messageText) > DISCORD_MAX_LENGTH
                 THEN /\ Invoke(partOneText(i + 1, question), "part1", i + 1, "chunks")
                      /\ answerChunks' = chunkLoop(answer)
                      /\ j' = 0
                 ELSE /\ Invoke(messageText, "record", i + 1, "sep")
                      /\ UNCHANGED <<answerChunks, j>>
     ELSE /\ pc' = "cleanup"
          /\ reported' = Append(reported, Len(questions))
          /\ UNCHANGED <<calls, resume, answerChunks, j>>
  /\ UNCHANGED <<platform, hasPhoto, hasCallback, imageFile, stdout, questions,
                 answers, i, error>>
  /\ UNCHANGED <<userId, imagePath>>
  /\ UNCHANGED outside

\* Discord: for (let j = 0; j < answerChunks.length; j++)
DiscordChunk ==
  /\ pc = "chunks"
  /\ IF j < Len(answerChunks)
     THEN /\ Invoke(chunkPrefix(j) \o answerChunks[j + 1], "chunk", i + 1, "chunks")
          /\ j' = j + 1
     ELSE /\ pc' = "sep"
          /\ UNCHANGED <<calls, resume, j>>
  /\ UNCHANGED <<platform, hasPhoto, hasCallback, imageFile, stdout, questions,
                 answers, i, answerChunks, error>>
  /\ UNCHANGED assignedOnce
  /\ UNCHANGED outside

\* Discord: if (i < questions.length - 1 && params.callback) send '---'; i++
DiscordSeparator ==
  /\ pc = "sep"
  /\ IF i < Len(questions) - 1
     THEN Invoke(PairSep, "separator", i + 1, "loop")
     ELSE pc' = "loop" /\ UNCHANGED <<calls, resume>>
  /\ i' = i + 1
  /\ UNCHANGED <<platform, hasPhoto, hasCallback, imageFile, stdout, questions,
                 answers, j, answerChunks, error>>
  /\ UNCHANGED assignedOnce
  /\ UNCHANGED outside

(***************************************************************************)
(* The subprocess's output.  process_discord_image (and the Telegram       *)
(* script it is copied from) prints a banner, then between the marker      *)
(* lines one QUESTION_ line, one ANSWER_ line and one '---' line per       *)
(* result.  The handler reads whatever text arrives, so the outputs below  *)
(* also include groups and marker lines that are incomplete.               *)
(***************************************************************************)

\* the most question/answer groups in one block
MaxGroups == 3

QuestionText(g) == <<"q">> \o Digits(g) \o <<"?">>

AnswerText(g) == <<"a">> \o Digits(g) \o <<".">>

MoreText(g) == <<"m">> \o Digits(g) \o <<".">>

\* print(f"QUESTION_{i}:::{result['question']}")
QuestionLine(g, text) == QUESTION_ \o Digits(g) \o FieldSep \o text

\* print(f"ANSWER_{i}:::{result['owl_answer']}")
AnswerLine(g, text) == ANSWER_ \o Digits(g) \o FieldSep \o text

\* a pair as printed; with a second answer line; without its answer line;
\* without its question line; with an empty answer; with an empty question
GroupKinds == {"QA", "QAM", "Q", "A", "QE", "EA"}

\* a pair whose answer is one space; whose question has '---' inside; whose
\* answer is one space and a second line; with two ANSWER_ lines; with two
\* QUESTION_ lines before the answer; with a QUESTION_ line after the answer;
\* with a second QUESTION_ line that has no text
ExtraKinds == {"QW", "QD", "QWM", "QAA", "QQA", "QAQ", "QNA"}

DashedText(g) == <<"q">> \o Digits(g) \o PairSep \o <<"x", "?">>

SecondText(g) == <<"b">> \o Digits(g) \o <<".">>

LaterText(g) == <<"r">> \o Digits(g) \o <<"?">>

\* the lines of group g, before its '---' line
GroupLines(kind, g) ==
  CASE kind = "QA"  -> <<QuestionLine(g, QuestionText(g)), AnswerLine(g, AnswerText(g))>>
    [] kind = "QAM" -> <<QuestionLine(g, QuestionText(g)), AnswerLine(g, AnswerText(g)),
                         MoreText(g)>>
    [] kind = "Q"   -> <<QuestionLine(g, QuestionText(g))>>
    [] kind = "A"   -> <<AnswerLine(g, AnswerText(g))>>
    [] kind = "QE"  -> <<QuestionLine(g, QuestionText(g)), AnswerLine(g, <<>>)>>
    [] kind = "EA"  -> <<QuestionLine(g, <<>>), AnswerLine(g, AnswerText(g))>>
    [] kind = "QW"  -> <<QuestionLine(g, QuestionText(g)), AnswerLine(g, <<" ">>)>>
    [] kind = "QD"  -> <<QuestionLine(g, DashedText(g)), AnswerLine(g, AnswerText(g))>>
    [] kind = "QWM" -> <<QuestionLine(g, QuestionText(g)), AnswerLine(g, <<" ">>),
                         MoreText(g)>>
    [] kind = "QAA" -> <<QuestionLine(g, QuestionText(g)), AnswerLine(g, AnswerText(g)),
                         MoreText(g), AnswerLine(g, SecondText(g))>>
    [] kind = "QQA" -> <<QuestionLine(g, QuestionText(g)), QuestionLine(g, LaterText(g)),
                         AnswerLine(g, AnswerText(g))>>
    [] kind = "QAQ" -> <<QuestionLine(g, QuestionText(g)), AnswerLine(g, AnswerText(g)),
                         QuestionLine(g, LaterText(g)), MoreText(g)>>
    [] kind = "QNA" -> <<QuestionLine(g, QuestionText(g)), QuestionLine(g, <<>>),
                         AnswerLine(g, AnswerText(g))>>

RECURSIVE BodyLinesFrom(_, _)
BodyLinesFrom(kinds, g) ==
  IF g > Len(kinds) THEN <<>>
  ELSE GroupLines(kinds[g], g) \o <<PairSep>> \o BodyLinesFrom(kinds, g + 1)

\* the lines between the marker lines for the groups of the given kinds
BodyLines(kinds) == BodyLinesFrom(kinds, 1)

KindSeqs(n) == UNION {[1..k -> GroupKinds] : k \in 0..n}

Shapes == {"ok", "noStart", "noEnd", "shortOpen", "longOpen", "shortClose",
           "longClose", "badStart", "badEnd", "noOutput"}

Banner == <<"C", "H", "R", "O", "N", "O", "S">>

\* the output's lines: the banner, then the block with its four '=' lines
OutputLines(shape, p, bodyLines) ==
  LET rule == Rep("=", SepWidth)
      start == CASE shape = "noStart" -> <<>>
                 [] shape = "badStart" ->
                      <<SubSeq(StartMarker(p), 1, Len(StartMarker(p)) - 1)>>
                 [] OTHER -> <<StartMarker(p)>>
      open == CASE shape = "shortOpen" -> Rep("=", SepWidth - 1)
                [] shape = "longOpen" -> Rep("=", SepWidth + 1)
                [] OTHER -> rule
      close == CASE shape = "shortClose" -> Rep("=", SepWidth - 1)
                 [] shape = "longClose" -> Rep("=", SepWidth + 1)
                 [] OTHER -> rule
      end == CASE shape = "noEnd" -> <<>>
               [] shape = "badEnd" -> <<Tail(EndMarker(p))>>
               [] OTHER -> <<EndMarker(p)>>
  IN  IF shape = "noOutput"
      THEN <<Banner>>
      ELSE <<Banner, rule>> \o start \o <<open>> \o bodyLines \o <<close>> \o end
             \o <<rule>>

\* print() ends every line with a newline
Output(shape, p, bodyLines) == join(OutputLines(shape, p, bodyLines), NL) \o NL

\* the outputs whose markers or '=' lines are damaged, and the one without a block
DamagedOutputs(p) ==
  {Output(shape, p, BodyLines(kinds)) : shape \in Shapes \ {"ok"}, kinds \in KindSeqs(1)}

TelegramDamaged == DamagedOutputs("telegram")

DiscordDamaged == DamagedOutputs("discord")

Damaged(p) == IF p = "discord" THEN DiscordDamaged ELSE TelegramDamaged

\* the outputs with short texts: every block of up to MaxGroups groups between
\* well-formed markers, the blocks with a one-space answer, and the damaged ones
ShortOutputs(p) ==
  {Output("ok", p, BodyLines(kinds)) : kinds \in KindSeqs(MaxGroups)}
    \cup {Output("ok", p, BodyLines(<<k>>)) : k \in ExtraKinds}
    \cup {Output("ok", p, BodyLines(<<k, "QAM">>)) : k \in ExtraKinds}
    \cup Damaged(p)

\* an answer of n1 letters, a period, gap spaces and n2 letters
LongAnswer(n1, gap, n2) == Rep("x", n1) \o <<".">> \o Rep(" ", gap) \o Rep("y", n2)

\* a long answer that is split in two
SampleLongAnswer == LongAnswer(1500, 1, 600)

LongAnswers ==
  {LongAnswer(n1, gap, n2) :
     n1 \in {1294, 1295, 1296, 1849}, gap \in {0, 1, 2}, n2 \in {30, 587, 588, 2000}}

LongQuestion == Rep("w", DISCORD_MAX_LENGTH) \o <<"?">>

\* the answer with which record 1 of question q1? has a messageText of
\* DISCORD_MAX_LENGTH + d characters
BoundaryAnswer(d) ==
  Rep("x", DISCORD_MAX_LENGTH + d - Len(recordText(1, QuestionText(1), <<>>)))

BoundaryAnswers == {BoundaryAnswer(d) : d \in {-1, 0, 1, 2}}

\* the question with which record 1 with an empty answer has a messageText of
\* DISCORD_MAX_LENGTH + d characters
BoundaryQuestion(d) ==
  Rep("w", DISCORD_MAX_LENGTH + d - Len(recordText(1, <<>>, <<>>)))

\* a block with one result, every text as given
OneResult(p, question, answer) ==
  Output("ok", p, <<QuestionLine(1, question), AnswerLine(1, answer), PairSep>>)

\* the outputs with long texts
LongOutputs(p) ==
  {OneResult(p, QuestionText(1), a) : a \in LongAnswers \cup BoundaryAnswers}
    \cup {OneResult(p, LongQuestion, AnswerText(1))}
    \cup {OneResult(p, BoundaryQuestion(d), <<" ">>) : d \in {0, 1}}

\* the bodies of a first block, and what may follow the block: a second block
\* or an output whose markers are damaged
FirstBodies == {BodyLines(<<"QA">>), BodyLines(<<"QAM", "QA">>)}

Trailers(p) ==
  {Output(shape, p, BodyLines(<<"QA", "QAM">>)) :
     shape \in {"ok", "noStart", "noEnd", "shortClose", "badEnd"}}

\* the outputs with a block and more after it, each with its first block's lines
TwoBlocks(p) ==
  {[first |-> b, out |-> Output("ok", p, b) \o t] : b \in FirstBodies, t \in Trailers(p)}

TelegramTwoBlocks == TwoBlocks("telegram")

DiscordTwoBlocks == TwoBlocks("discord")

TwoBlocksOf(p) == IF p = "discord" THEN DiscordTwoBlocks ELSE TelegramTwoBlocks

\* two outputs one after the other, the first without its end marker or without
\* its start marker: a marker occurs twice
Repeated(p) ==
  {Output(s1, p, BodyLines(<<"QA">>)) \o Output(s2, p, BodyLines(<<"QAM">>)) :
     s1 \in {"noEnd", "noStart"}, s2 \in {"ok", "noEnd", "noStart"}}

TelegramRepeated == Repeated("telegram")

DiscordRepeated == Repeated("discord")

\* the blocks as the script prints them, some answers with a second line: each
\* with the kinds of its groups
Aligned(p) ==
  {[kinds |-> kinds, out |-> Output("ok", p, BodyLines(kinds))] :
     kinds \in UNION {[1..k -> {"QA", "QAM"}] : k \in 1..MaxGroups}}

TelegramAligned == Aligned("telegram")

DiscordAligned == Aligned("discord")

AlignedOf(p) == IF p = "discord" THEN DiscordAligned ELSE TelegramAligned

\* what telegram_main.py may print
TelegramOutputs ==
  ShortOutputs("telegram") \cup {t.out : t \in TelegramTwoBlocks} \cup TelegramRepeated

\* what discord_main.py may print
DiscordOutputs ==
  ShortOutputs("discord") \cup {OneResult("discord", QuestionText(1), SampleLongAnswer)}
    \cup {t.out : t \in DiscordTwoBlocks} \cup DiscordRepeated

\* what discord_main.py may print for a page of text
DiscordLongOutputs == LongOutputs("discord")

Outputs(p) == IF p = "discord" THEN DiscordOutputs ELSE TelegramOutputs

(***************************************************************************)
(* The specification: one invocation of one handler                        *)
(***************************************************************************)

Init ==
  /\ platform \in {"telegram", "discord"}
  /\ hasPhoto \in BOOLEAN
  /\ hasCallback \in BOOLEAN
  /\ pc = "start"
  /\ resume = "start"
  /\ imageFile = FALSE
  /\ stdout = <<>>
  /\ questions = <<>>
  /\ answers = <<>>
  /\ i = 0
  /\ j = 0
  /\ answerChunks = <<>>
  /\ calls = <<>>
  /\ error = "none"
  /\ proc = "clear"
  /\ cleared = FALSE
  /\ patterns = {}
  /\ self = 1
  /\ other = <<>>
  /\ neo4j = {}
  /\ userId = "unknown"
  /\ imagePath = <<>>
  /\ reported = <<>>
  /\ clock = 0
  /\ profile = DiscordProfile
  /\ unconsumed = <<>>

Next ==
  \/ Receive
  \/ GetFileLink
  \/ GetFileLinkFail
  \/ DownloadOk
  \/ DownloadFail
  \/ pc = "exec" /\ \E out \in Outputs(platform) : ExecOk(out)
  \/ ExecFail
  \/ Parse
  \/ TelegramRecord
  \/ TelegramContinuation
  \/ DiscordRecord
  \/ DiscordChunk
  \/ DiscordSeparator
  \/ Cleanup
  \/ Catch
  \/ CallbackResolve
  \/ CallbackReject

Spec == Init /\ [][Next]_vars

(***************************************************************************)
(* The Discord handler on the long outputs                                 *)
(***************************************************************************)

InitLong == Init /\ platform = "discord"

NextLong ==
  \/ Receive
  \/ GetFileLink
  \/ GetFileLinkFail
  \/ DownloadOk
  \/ DownloadFail
  \/ pc = "exec" /\ \E out \in DiscordLongOutputs : ExecOk(out)
  \/ ExecFail
  \/ Parse
  \/ DiscordRecord
  \/ DiscordChunk
  \/ DiscordSeparator
  \/ Cleanup
  \/ Catch
  \/ CallbackResolve
  \/ CallbackReject

SpecLong == InitLong /\ [][NextLong]_vars

(***************************************************************************)
(* The chunk loop on its own, one pass at a time, with the two numbers it  *)
(* is written with (1900 and 50) taken from a profile                      *)
(***************************************************************************)

\* the largest maxMessageLength and reserveForLabel tried
MaxLimit == 7

\* the longest answer tried, in pieces
AnswerPieces == 3

\* how many chunks a run may push
MaxChunks == 4

Profiles ==
  [maxMessageLength : 1..MaxLimit, reserveForLabel : 0..MaxLimit] \cup {DiscordProfile}

\* what the answers are put together from
Pieces == {<<"a", "a", "a">>, <<"a", "a", ".", " ">>, NL, <<" ">>}

RECURSIVE Joined(_)
Joined(pieces) == IF pieces = <<>> THEN <<>> ELSE Head(pieces) \o Joined(Tail(pieces))

PiecedAnswers == {Joined(ps) : ps \in UNION {[1..n -> Pieces] : n \in 0..AnswerPieces}}

\* const chunkSize = DISCORD_MAX_LENGTH - 50, for the profile
budget == profile.maxMessageLength - profile.reserveForLabel

\* one pass of `while (remainingAnswer.length > 0)`
ChunkStep ==
  /\ pc = "split"
  /\ Len(unconsumed) > 0
  /\ Len(answerChunks) < MaxChunks
  /\ LET chunk == cutAt(unconsumed, budget)
     IN  /\ answerChunks' = Append(answerChunks, chunk)
         /\ unconsumed' = restAfter(unconsumed, chunk)
  /\ UNCHANGED <<platform, hasPhoto, hasCallback, pc, resume, imageFile, stdout,
                 questions, answers, i, j, calls, error, proc, cleared, patterns,
                 self, other, neo4j, userId, imagePath, reported, clock, profile>>

InitBudget ==
  /\ platform = "discord"
  /\ hasPhoto = TRUE
  /\ hasCallback = TRUE
  /\ pc = "split"
  /\ resume = "start"
  /\ imageFile = TRUE
  /\ stdout = <<>>
  /\ questions = <<>>
  /\ answers = <<>>
  /\ i = 0
  /\ j = 0
  /\ answerChunks = <<>>
  /\ calls = <<>>
  /\ error = "none"
  /\ proc = "clear"
  /\ cleared = FALSE
  /\ patterns = {}
  /\ self = 1
  /\ other = <<>>
  /\ neo4j = {}
  /\ userId = "unknown"
  /\ imagePath = <<>>
  /\ reported = <<>>
  /\ clock = 0
  /\ profile \in Profiles
  /\ unconsumed \in PiecedAnswers

NextBudget == ChunkStep

SpecBudget == InitBudget /\ [][NextBudget]_vars

(***************************************************************************)
(* Two invocations in progress at once.  The handler is an async function: *)
(* a second event starts a second invocation while the first waits for its *)
(* download, its subprocess or a send.  The variables hold the running     *)
(* invocation, `other` the suspended one, and Switch hands the event loop  *)
(* over.  Each invocation's subprocess (process_discord_image) clears the  *)
(* one Neo4j database, writes its image's graph and reads the patterns.    *)
(***************************************************************************)

\* the running invocation's variables as a record
Locals ==
  [hasPhoto |-> hasPhoto, hasCallback |-> hasCallback, pc |-> pc, resume |-> resume,
   imageFile |-> imageFile, stdout |-> stdout, questions |-> questions,
   answers |-> answers, i |-> i, j |-> j, answerChunks |-> answerChunks,
   calls |-> calls, error |-> error, proc |-> proc, cleared |-> cleared,
   patterns |-> patterns, userId |-> userId, imagePath |-> imagePath,
   reported |-> reported]

\* an invocation whose event has not been handled yet
Fresh ==
  [hasPhoto |-> TRUE, hasCallback |-> TRUE, pc |-> "start", resume |-> "start",
   imageFile |-> FALSE, stdout |-> <<>>, questions |-> <<>>, answers |-> <<>>,
   i |-> 0, j |-> 0, answerChunks |-> <<>>, calls |-> <<>>, error |-> "none",
   proc |-> "clear", cleared |-> FALSE, patterns |-> {}, userId |-> "unknown",
   imagePath |-> <<>>, reported |-> <<>>]

\* where a handler is not running: before it starts, at an await, after it ended
Waiting == {"start", "link", "download", "exec", "await", "done", "rejected"}

\* the event loop runs the other invocation
Switch ==
  /\ pc \in Waiting
  /\ other.pc \notin {"done", "rejected"}
  /\ self' = 3 - self
  /\ other' = Locals
  /\ hasPhoto' = other.hasPhoto
  /\ hasCallback' = other.hasCallback
  /\ pc' = other.pc
  /\ resume' = other.resume
  /\ imageFile' = other.imageFile
  /\ stdout' = other.stdout
  /\ questions' = other.questions
  /\ answers' = other.answers
  /\ i' = other.i
  /\ j' = other.j
  /\ answerChunks' = other.answerChunks
  /\ calls' = other.calls
  /\ error' = other.error
  /\ proc' = other.proc
  /\ cleared' = other.cleared
  /\ patterns' = other.patterns
  /\ userId' = other.userId
  /\ imagePath' = other.imagePath
  /\ reported' = other.reported
  /\ UNCHANGED <<platform, neo4j, clock, profile, unconsumed>>

\* what a step of the subprocess leaves alone
handler == <<platform, hasPhoto, hasCallback, pc, resume, imageFile, stdout,
             questions, answers, i, j, answerChunks, calls, error, self, other,
             userId, imagePath, reported, clock, profile, unconsumed>>

\* STEP 0: clear_neo4j_database; on failure the script continues anyway
ClearNeo4j ==
  /\ pc = "exec"
  /\ proc = "clear"
  /\ \E clear_success \in BOOLEAN :
       /\ cleared' = clear_success
       /\ neo4j' = IF clear_success THEN {} ELSE neo4j
  /\ proc' = "pipeline"
  /\ UNCHANGED <<handler, patterns>>

\* run_pipeline: OCR, then the image's knowledge graph is written to Neo4j
RunPipeline ==
  /\ pc = "exec"
  /\ proc = "pipeline"
  /\ neo4j' = neo4j \cup {self}
  /\ proc' = "discover"
  /\ UNCHANGED <<handler, cleared, patterns>>

\* run_pipeline raises: PIPELINE FAILED is printed and the script ends
PipelineFails ==
  /\ pc = "exec"
  /\ proc = "pipeline"
  /\ proc' = "failed"
  /\ UNCHANGED <<handler, cleared, patterns, neo4j>>

\* discover_patterns reads whatever the database holds
DiscoverPatterns ==
  /\ pc = "exec"
  /\ proc = "discover"
  /\ patterns' = neo4j
  /\ proc' = "exit"
  /\ UNCHANGED <<handler, cleared, neo4j>>

\* the result lines for the images in order, numbered from k
RECURSIVE ResultLines(_, _)
ResultLines(images, k) ==
  IF images = <<>> THEN <<>>
  ELSE <<QuestionLine(k, QuestionText(Head(images))),
         AnswerLine(k, AnswerText(Head(images))), PairSep>>
         \o ResultLines(Tail(images), k + 1)

\* what the script has printed when it ends: no block when no question was
\* generated, else one result per pattern
Printed(p, found) ==
  IF found = {}
  THEN Output("noOutput", p, <<>>)
  ELSE Output("ok", p, ResultLines(SelectSeq(<<1, 2>>, LAMBDA m : m \in found), 1))

InitTwo ==
  /\ platform \in {"telegram", "discord"}
  /\ hasPhoto = TRUE
  /\ hasCallback = TRUE
  /\ pc = "start"
  /\ resume = "start"
  /\ imageFile = FALSE
  /\ stdout = <<>>
  /\ questions = <<>>
  /\ answers = <<>>
  /\ i = 0
  /\ j = 0
  /\ answerChunks = <<>>
  /\ calls = <<>>
  /\ error = "none"
  /\ proc = "clear"
  /\ cleared = FALSE
  /\ patterns = {}
  /\ self = 1
  /\ other = Fresh
  /\ neo4j = {}
  /\ userId = "unknown"
  /\ imagePath = <<>>
  /\ reported = <<>>
  /\ clock = 0
  /\ profile = DiscordProfile
  /\ unconsumed = <<>>

NextTwo ==
  \/ Receive
  \/ GetFileLink
  \/ GetFileLinkFail
  \/ DownloadOk
  \/ DownloadFail
  \/ ClearNeo4j
  \/ RunPipeline
  \/ PipelineFails
  \/ DiscoverPatterns
  \/ pc = "exec" /\ proc \in {"exit", "failed"} /\ ExecOk(Printed(platform, patterns))
  \/ ExecFail
  \/ Parse
  \/ TelegramRecord
  \/ TelegramContinuation
  \/ DiscordRecord
  \/ DiscordSeparator
  \/ Cleanup
  \/ Catch
  \/ CallbackResolve
  \/ CallbackReject
  \/ Switch

SpecTwo == InitTwo /\ [][NextTwo]_vars

(***************************************************************************)
(* Two invocations and the clock: the temp image path is built from the    *)
(* user id and Date.now() when getFileLink has resolved                    *)
(***************************************************************************)

\* how far the millisecond clock advances
MaxClock == 1

\* ctx.from.id as a string, or 'unknown' for an event without a sender
UserIds == {"unknown", "7"}

\* a millisecond passes
Tick ==
  /\ clock < MaxClock
  /\ clock' = clock + 1
  /\ UNCHANGED <<platform, hasPhoto, hasCallback, pc, resume, imageFile, stdout,
                 questions, answers, i, j, answerChunks, calls, error, proc, cleared,
                 patterns, self, other, neo4j, userId, imagePath, reported, profile,
                 unconsumed>>

InitPath ==
  /\ platform = "telegram"
  /\ hasPhoto = TRUE
  /\ hasCallback = TRUE
  /\ pc = "start"
  /\ resume = "start"
  /\ imageFile = FALSE
  /\ stdout = <<>>
  /\ questions = <<>>
  /\ answers = <<>>
  /\ i = 0
  /\ j = 0
  /\ answerChunks = <<>>
  /\ calls = <<>>
  /\ error = "none"
  /\ proc = "clear"
  /\ cleared = FALSE
  /\ patterns = {}
  /\ self = 1
  /\ \E id \in UserIds : other = [Fresh EXCEPT !.userId = id]
  /\ neo4j = {}
  /\ userId \in UserIds
  /\ imagePath = <<>>
  /\ reported = <<>>
  /\ clock = 0
  /\ profile = DiscordProfile
  /\ unconsumed = <<>>

NextPath ==
  \/ Receive
  \/ GetFileLink
  \/ GetFileLinkFail
  \/ DownloadOk
  \/ DownloadFail
  \/ pc = "exec" /\ ExecOk(Printed(platform, {self}))
  \/ ExecFail
  \/ Parse
  \/ TelegramRecord
  \/ TelegramContinuation
  \/ Cleanup
  \/ Catch
  \/ CallbackResolve
  \/ CallbackReject
  \/ Switch
  \/ Tick

SpecPath == InitPath /\ [][NextPath]_vars

(***************************************************************************)
(* What the properties speak of                                            *)
(***************************************************************************)

\* the messages of a record, and those that open one
RecordKinds == {"record", "part1", "chunk", "continuation"}

FirstKinds == {"record", "part1"}

\* everything the record loop sends
DispatchKinds == RecordKinds \cup {"separator"}

CallsOf(kinds) == SelectSeq(calls, LAMBDA c : c.kind \in kinds)

Count(kinds) == Len(CallsOf(kinds))

NoReject == \A k \in 1..Len(calls) : calls[k].status # "rejected"

\* the handler has returned and every send was delivered
Finished == pc = "done" /\ hasCallback /\ NoReject

\* the handler found a block in stdout and is past the parse
Parsed == pc \notin {"start", "link", "download", "exec", "parse"} /\ blockFound(stdout, platform)

\* the non-empty '---'-separated groups of the block
Groups == qaPairs(resultsBlock(stdout, platform))

\* question q and answer a are both read from the group g
FromGroup(g, q, a) ==
  LET own == parse(g, platform)
  IN  /\ \E k \in 1..Len(own.questions) : own.questions[k] = q
      /\ \E k \in 1..Len(own.answers) : own.answers[k] = a

\* the group g has a QUESTION_ line and an ANSWER_ line
HasBothTags(g) ==
  LET lines == split(trim(g), NL)
  IN  /\ \E k \in 1..Len(lines) : startsWith(lines[k], QUESTION_)
      /\ \E k \in 1..Len(lines) : startsWith(lines[k], ANSWER_)

\* the group g has a QUESTION_ line and an ANSWER_ line with text after ':::'
HasBothTexts(g) ==
  LET lines == split(trim(g), NL)
  IN  /\ \E k \in 1..Len(lines) :
           startsWith(lines[k], QUESTION_) /\ secondField(lines[k]) # <<>>
      /\ \E k \in 1..Len(lines) :
           startsWith(lines[k], ANSWER_) /\ secondField(lines[k]) # <<>>

\* the records for which a first message was sent
DeliveredRecords == {calls[k].rec : k \in {n \in 1..Len(calls) : calls[n].kind \in FirstKinds}}

\* the texts sent for record r, in order
TextsOf(r) ==
  LET own == SelectSeq(calls, LAMBDA c : c.rec = r /\ c.kind \in RecordKinds)
  IN  [k \in 1..Len(own) |-> own[k].text]

\* the answer chunks sent for record r, in order, without their part labels
SentChunks(r) ==
  LET own == SelectSeq(calls, LAMBDA c : c.rec = r /\ c.kind = "chunk")
  IN  [k \in 1..Len(own) |->
         SubSeq(own[k].text, Len(chunkPrefix(k - 1)) + 1, Len(own[k].text))]

\* the paragraphs of an answer: its non-empty pieces between blank lines
BlankLineParagraphs(answer) == SelectSeq(split(answer, BlankLine), LAMBDA p : p # <<>>)

\* text is the chunks in order, with at most one whitespace character put back
\* at each cut
RECURSIVE Reassembles(_, _)
Reassembles(chunks, text) ==
  IF chunks = <<>> THEN text = <<>>
  ELSE /\ startsWith(text, Head(chunks)) \/ Head(chunks) = <<>>
       /\ LET rest == SubSeq(text, Len(Head(chunks)) + 1, Len(text))
          IN  IF Len(chunks) = 1 THEN rest = <<>>
              ELSE \/ Reassembles(Tail(chunks), rest)
                   \/ /\ rest # <<>>
                      /\ Head(rest) \in WhiteSpace
                      /\ Reassembles(Tail(chunks), Tail(rest))

\* text without its leading whitespace
DropLeadingWhiteSpace(text) ==
  LET lead == CHOOSE k \in 0..Len(text) :
                /\ \A m \in 1..k : text[m] \in WhiteSpace
                /\ (k = Len(text) \/ text[k + 1] \notin WhiteSpace)
  IN  SubSeq(text, lead + 1, Len(text))

\* text is the chunks in order, with a run of whitespace put back at each cut
RECURSIVE ReassemblesAcrossWhiteSpace(_, _)
ReassemblesAcrossWhiteSpace(chunks, text) ==
  IF chunks = <<>> THEN text = <<>>
  ELSE /\ startsWith(text, Head(chunks)) \/ Head(chunks) = <<>>
       /\ LET rest == SubSeq(text, Len(Head(chunks)) + 1, Len(text))
          IN  IF Len(chunks) = 1 THEN rest = <<>>
              ELSE \/ ReassemblesAcrossWhiteSpace(Tail(chunks), rest)
                   \/ ReassemblesAcrossWhiteSpace(Tail(chunks),
                                                  DropLeadingWhiteSpace(rest))

(***************************************************************************)
(* Properties                                                              *)
(***************************************************************************)

\* C1: the question and the answer of every record that is delivered come from
\* one and the same '---'-separated group of the block
C1_PairFromOneGroup ==
  Parsed =>
    \A k \in 1..Len(calls) :
      calls[k].kind \in FirstKinds =>
        \E g \in 1..Len(Groups) :
          FromGroup(Groups[g], questions[calls[k].rec], answers[calls[k].rec])

\* C2: only the last call can be pending, so a call is made only when every
\* earlier one has settled; the messages go out in record order, and the first
\* message of record r opens with r's number and question
C2_OneAtATimeInOrder ==
  /\ \A k \in 1..(Len(calls) - 1) : calls[k].status # "pending"
  /\ \A k, l \in 1..Len(calls) :
       (k < l /\ calls[k].rec > 0 /\ calls[l].rec > 0) => calls[k].rec <= calls[l].rec
  /\ \A k \in 1..Len(calls) :
       calls[k].kind \in FirstKinds =>
         startsWith(calls[k].text, headerText(calls[k].rec, questions[calls[k].rec]))

\* the handler returned after a continuation of record 1 and then record 2
C2_Witness ==
  /\ pc = "done"
  /\ \E k, l \in 1..Len(calls) :
       /\ k < l
       /\ calls[k].kind = "continuation" /\ calls[k].rec = 1
       /\ calls[l].kind = "record" /\ calls[l].rec = 2

\* C3: once a send of the record loop was rejected, no message of a record and
\* no separator is sent any more
C3_NothingAfterRejection ==
  \A k, l \in 1..Len(calls) :
    (k < l /\ calls[k].status = "rejected" /\ calls[k].kind \in DispatchKinds)
      => calls[l].kind \notin DispatchKinds

\* the first of at least two records was rejected and the handler returned
C3_Witness ==
  /\ pc = "done"
  /\ loopBound >= 2
  /\ \E k \in 1..Len(calls) :
       calls[k].kind = "record" /\ calls[k].rec = 1 /\ calls[k].status = "rejected"

\* C4: every message the Discord handler sends for a record is at most
\* DISCORD_MAX_LENGTH characters long
C4_WithinLimit ==
  platform = "discord" =>
    \A k \in 1..Len(calls) :
      calls[k].kind \in RecordKinds => Len(calls[k].text) <= DISCORD_MAX_LENGTH

\* C5: the chunks of a split answer, in order, with at most one whitespace
\* character put back at each cut, are the answer
C5_ChunksReassemble ==
  (platform = "discord" /\ hasCallback /\ pc = "sep" /\ SentChunks(i + 1) # <<>>)
    => Reassembles(SentChunks(i + 1), answers[i + 1])

\* C5, amended: the chunks of a split answer, in order, with the run of
\* whitespace that was trimmed put back at each cut, are the answer: only
\* whitespace at a cut is dropped and nothing is duplicated
C5_ChunksReassembleAcrossWhiteSpace ==
  (platform = "discord" /\ hasCallback /\ pc = "sep" /\ SentChunks(i + 1) # <<>>)
    => ReassemblesAcrossWhiteSpace(SentChunks(i + 1), answers[i + 1])

\* an answer was cut after a period that two spaces follow, and both were dropped
C5_Witness ==
  /\ platform = "discord"
  /\ hasCallback
  /\ pc = "sep"
  /\ Len(SentChunks(i + 1)) = 2
  /\ Len(answers[i + 1]) = Len(SentChunks(i + 1)[1]) + Len(SentChunks(i + 1)[2]) + 2

\* C6: the Telegram handler delivers as many records as the block has groups
\* with both a QUESTION_ and an ANSWER_ line (whether a tag line with nothing
\* after ':::' counts or not)
C6_RecordCount ==
  (platform = "telegram" /\ Finished /\ Parsed) =>
    \/ Cardinality(DeliveredRecords)
         = Cardinality({g \in 1..Len(Groups) : HasBothTags(Groups[g])})
    \/ Cardinality(DeliveredRecords)
         = Cardinality({g \in 1..Len(Groups) : HasBothTexts(Groups[g])})

\* C7: with a block found and no record to send, the handler calls the callback
\* once with the no-results notice, sends nothing of the record loop, and the
\* error notice follows only if that one call was rejected
C7_EmptyRecordSetNotice ==
  (hasCallback /\ Parsed /\ loopBound = 0) =>
    /\ Count({"noresults"}) = 1
    /\ Count(DispatchKinds \cup {"complete", "noblock"}) = 0
    /\ Count({"error"}) > 0 => CallsOf({"noresults"})[1].status = "rejected"

\* a block with a question and no answer was handled and the handler returned
C7_Witness ==
  /\ Finished
  /\ Parsed
  /\ Len(questions) = 1
  /\ Len(answers) = 0
  /\ Count({"noresults"}) = 1

\* C8: for an output whose start marker, end marker or '=' line is missing or
\* damaged the match fails, and the handler sends the could-not-be-parsed notice
\* once and nothing of the record loop; the error notice follows only a rejected
\* send
C8_DamagedOutputNotice ==
  stdout \in Damaged(platform) =>
    /\ ~resultsMatch(stdout, StartMarker(platform), EndMarker(platform)).matched
    /\ (hasCallback /\ pc # "parse") =>
         /\ Count({"noblock"}) = 1
         /\ Count(DispatchKinds \cup {"complete", "noresults"}) = 0
         /\ Count({"error"}) > 0 => ~NoReject

\* an output with a start marker and no end marker was handled
C8_Witness ==
  /\ Finished
  /\ stdout = Output("noEnd", platform, BodyLines(<<"QA">>))
  /\ Count({"noblock"}) = 1

\* C9: the Discord handler sends a separator between every two records it
\* delivers and none after the last
C9_SeparatorOnlyBetween ==
  (platform = "discord" /\ Finished) =>
    /\ \A k \in 1..Len(calls) :
         calls[k].kind = "separator" =>
           \E l \in (k + 1)..Len(calls) : calls[l].kind \in FirstKinds
    /\ \A k, l \in 1..Len(calls) :
         (k < l /\ calls[k].kind \in FirstKinds /\ calls[l].kind \in FirstKinds)
           => \E m \in (k + 1)..(l - 1) : calls[m].kind = "separator"

\* C10: the Telegram handler sends for a record one message per paragraph of
\* its answer and at least one: the header with the first paragraph, then each
\* later paragraph whole as a continuation, in order
C10_ParagraphMessages ==
  (platform = "telegram" /\ Finished) =>
    \A r \in 1..loopBound :
      LET P == BlankLineParagraphs(answers[r])
      IN  /\ Len(TextsOf(r)) = Max(1, Len(P))
          /\ TextsOf(r) =
               IF P = <<>>
               THEN <<recordText(r, questions[r], answers[r])>>
               ELSE [k \in 1..Len(P) |->
                       IF k = 1 THEN recordText(r, questions[r], P[1])
                       ELSE continuationText(P[k])]

\* a record with a two-paragraph answer was delivered in two messages
C10_Witness ==
  /\ platform = "telegram"
  /\ Finished
  /\ \E r \in 1..loopBound :
       Len(BlankLineParagraphs(answers[r])) = 2 /\ Len(TextsOf(r)) = 2

\* C11: with full = '<ordinal>. <question>' + two newlines + 'Answer: ' + answer,
\* the Discord handler sends a record whose full is exactly DISCORD_MAX_LENGTH
\* long as one message, and a record whose full is one character longer as at
\* least two
C11_BoundaryOfSplit ==
  (platform = "discord" /\ Finished) =>
    \A r \in 1..loopBound :
      LET full == Digits(r) \o <<".", " ">> \o questions[r] \o BlankLine
                    \o AnswerLabel \o answers[r]
      IN  /\ Len(full) = DISCORD_MAX_LENGTH => Len(TextsOf(r)) = 1
          /\ Len(full) = DISCORD_MAX_LENGTH + 1 => Len(TextsOf(r)) >= 2

\* C11, amended: with text = a newline + full, the message as the handler
\* builds it, a record whose text is exactly DISCORD_MAX_LENGTH long is sent as
\* that one message, and a record whose text is one character longer is sent as
\* the header-only part-1 message and then its answer in chunks: at least two
\* messages when the answer is not empty
C11_BoundaryOfMessageText ==
  (platform = "discord" /\ Finished) =>
    \A r \in 1..loopBound :
      LET text == recordText(r, questions[r], answers[r])
      IN  /\ Len(text) = DISCORD_MAX_LENGTH => TextsOf(r) = <<text>>
          /\ Len(text) = DISCORD_MAX_LENGTH + 1 =>
               /\ TextsOf(r)[1] = partOneText(r, questions[r])
               /\ Len(TextsOf(r)) = 1 + Len(chunkLoop(answers[r]))
               /\ answers[r] # <<>> => Len(TextsOf(r)) >= 2

\* a record whose text is DISCORD_MAX_LENGTH + 1 long was sent in three messages
C11_Witness ==
  /\ platform = "discord"
  /\ Finished
  /\ loopBound = 1
  /\ Len(recordText(1, questions[1], answers[1])) = DISCORD_MAX_LENGTH + 1
  /\ Len(TextsOf(1)) = 3

\* the block's lines, cut into groups at the lines that are '---' and nothing
\* else; acc is the group being collected
RECURSIVE GroupsAtSeparatorLines(_, _)
GroupsAtSeparatorLines(lines, acc) ==
  IF lines = <<>> THEN <<acc>>
  ELSE IF trim(Head(lines)) = PairSep
  THEN <<acc>> \o GroupsAtSeparatorLines(Tail(lines), <<>>)
  ELSE GroupsAtSeparatorLines(Tail(lines), Append(acc, Head(lines)))

\* the non-blank lines of a group, trimmed
TrimmedLines(lines) ==
  LET kept == SelectSeq(lines, LAMBDA l : Len(trim(l)) > 0)
  IN  [k \in 1..Len(kept) |-> trim(kept[k])]

\* C12: the groups the Telegram handler scans are the block's lines cut at the
\* lines that consist solely of '---', so a '---' inside a line ends no group
\* and cuts no text
C12_SplitOnlyAtSeparatorLines ==
  (platform = "telegram" /\ Parsed) =>
    [g \in 1..Len(Groups) |-> TrimmedLines(split(Groups[g], NL))]
      = SelectSeq([g \in 1..Len(GroupsAtSeparatorLines(split(resultsBlock(stdout, platform), NL), <<>>)) |->
                     TrimmedLines(GroupsAtSeparatorLines(split(resultsBlock(stdout, platform), NL), <<>>)[g])],
                  LAMBDA g : g # <<>>)

\* C13: every record the handler dispatches has a non-empty question and a
\* non-empty answer
C13_RecordsNonEmpty ==
  Parsed =>
    \A r \in 1..loopBound : questions[r] # <<>> /\ answers[r] # <<>>

\* C14: when more follows a well-formed block in stdout (a second block, or an
\* output with damaged markers), the block the handler parses is the first one,
\* and the records it delivers are that block's and no others
C14_FirstBlockOnly ==
  \A t \in TwoBlocksOf(platform) :
    (stdout = t.out /\ pc # "parse") =>
      LET own == parse(join(t.first, NL), platform)
      IN  /\ resultsBlock(stdout, platform) = join(t.first, NL)
          /\ questions = own.questions
          /\ answers = own.answers
          /\ \A k \in 1..Len(calls) :
               calls[k].kind \in FirstKinds =>
                 /\ calls[k].rec <= Min(Len(own.questions), Len(own.answers))
                 /\ startsWith(calls[k].text,
                               headerText(calls[k].rec, own.questions[calls[k].rec]))
          /\ Finished => DeliveredRecords = 1..Min(Len(own.questions), Len(own.answers))

\* a block of two records with a second well-formed block after it was handled
C14_Witness ==
  /\ Finished
  /\ stdout = Output("ok", platform, BodyLines(<<"QAM", "QA">>))
                 \o Output("ok", platform, BodyLines(<<"QA", "QAM">>))
  /\ DeliveredRecords = {1, 2}

\* C15: with two invocations in progress at once, the patterns a subprocess
\* reads after its own clear succeeded are those of its own image's graph
C15_OwnGraphOnly ==
  /\ (proc = "exit" /\ cleared) => patterns = {self}
  /\ (other.proc = "exit" /\ other.cleared) => other.patterns = {3 - self}

\* what the invocation with the variables l holds and has sent is computed from
\* the output of its own subprocess
DerivedFromOwnStdout(l) ==
  LET found == blockFound(l.stdout, platform)
      own == IF found THEN parse(resultsBlock(l.stdout, platform), platform)
             ELSE [questions |-> <<>>, answers |-> <<>>]
      n == Min(Len(own.questions), Len(own.answers))
  IN  /\ l.questions \in {<<>>, own.questions}
      /\ l.answers \in {<<>>, own.answers}
      /\ l.i <= n
      /\ \A k \in 1..Len(l.calls) :
           LET c == l.calls[k]
           IN  /\ c.kind = "record" =>
                    /\ c.rec \in 1..n
                    /\ c.text = recordText(c.rec, own.questions[c.rec], own.answers[c.rec])
               /\ c.kind = "separator" => c.rec < Len(own.questions)
               /\ c.kind \in {"complete", "noresults"} => found
               /\ c.kind = "noblock" => ~found /\ l.stdout # <<>>

\* C16: under every interleaving of two invocations, what each has parsed and
\* every result message it has sent come from the output of the subprocess it
\* started itself
C16_OwnStdoutOnly ==
  /\ DerivedFromOwnStdout(Locals)
  /\ DerivedFromOwnStdout(other)

\* both invocations delivered records, from outputs that differ
C16_Witness ==
  /\ pc = "done"
  /\ other.pc = "done"
  /\ stdout # other.stdout
  /\ \E k \in 1..Len(calls) : calls[k].kind = "record" /\ calls[k].status = "resolved"
  /\ \E k \in 1..Len(other.calls) :
       other.calls[k].kind = "record" /\ other.calls[k].status = "resolved"

\* the handler has ended: its promise resolved or rejected
Ended == pc \in {"done", "rejected"}

\* the three failure kinds, as they occurred in this invocation
NoBlockFound == stdout # <<>> /\ pc # "parse" /\ ~blockFound(stdout, platform)

EmptyRecordSet ==
  stdout # <<>> /\ pc # "parse" /\ blockFound(stdout, platform) /\ loopBound = 0

DeliveryFailure == ~NoReject

\* what an observer of the sends and of the handler's result sees
SeesText(text) == \E k \in 1..Len(calls) : calls[k].text = text

SeesDeliveryError == SeesText(ErrorNotice("send failed")) \/ pc = "rejected"

\* C17: each of the three failure kinds shows in the sends and the result, in a
\* way the other two do not: the no-block notice, the no-results notice, and
\* the error notice of a failed send or the handler's rejection
C17_FailuresDistinguishable ==
  Ended =>
    /\ NoBlockFound <=> SeesText(NoBlockNotice)
    /\ EmptyRecordSet <=> SeesText(NoResultsNotice)
    /\ DeliveryFailure <=> SeesDeliveryError

\* C17, amended: for an event with a callback, each of the three failure kinds
\* shows in the sends and the result in a way the other two do not
C17_FailuresDistinguishableWithCallback ==
  (Ended /\ hasCallback) =>
    /\ NoBlockFound <=> SeesText(NoBlockNotice)
    /\ EmptyRecordSet <=> SeesText(NoResultsNotice)
    /\ DeliveryFailure <=> SeesDeliveryError

\* the no-results notice was sent and rejected, and the error notice delivered
C17_Witness ==
  /\ pc = "done"
  /\ hasCallback
  /\ EmptyRecordSet
  /\ DeliveryFailure
  /\ SeesText(NoResultsNotice)
  /\ SeesText(ErrorNotice("send failed"))

\* C18: every answer the Telegram handler has parsed, split into paragraphs at
\* blank lines as the record loop splits it and joined again with blank lines,
\* is the answer
C18_ParagraphsRoundTrip ==
  (platform = "telegram" /\ Parsed) =>
    \A r \in 1..Len(answers) : join(paragraphs(answers[r]), BlankLine) = answers[r]

\* C19: in both handlers the line that follows the ANSWER_ line of a group is
\* part of what is delivered for that group's record
C19_ContinuationDelivered ==
  \A b \in AlignedOf(platform) :
    (stdout = b.out /\ Finished) =>
      \A g \in 1..Len(b.kinds) :
        b.kinds[g] = "QAM" =>
          \E k \in 1..Len(TextsOf(g)) : Occurrences(TextsOf(g)[k], MoreText(g)) # {}

\* what a line of a group adds to the answer buffer once the buffer is open
Contribution(line) ==
  IF startsWith(line, QUESTION_) THEN <<>>
  ELSE IF startsWith(line, ANSWER_)
  THEN IF secondField(line) # <<>> THEN <<trim(secondField(line))>> ELSE <<>>
  ELSE IF trim(line) # <<>> THEN <<trim(line)>> ELSE <<>>

RECURSIVE CollectFrom(_, _)
CollectFrom(lines, from) ==
  IF from > Len(lines) THEN <<>>
  ELSE Contribution(lines[from]) \o CollectFrom(lines, from + 1)

\* the answer buffer of the group g when it opens at the group's last ANSWER_
\* line (restart) or at its first
AnswerBuffer(g, restart) ==
  LET lines == split(trim(g), NL)
      tags == {k \in 1..Len(lines) : startsWith(lines[k], ANSWER_)}
  IN  IF tags = {} THEN <<>>
      ELSE IF restart
      THEN CollectFrom(lines, CHOOSE k \in tags : \A m \in tags : k >= m)
      ELSE CollectFrom(lines, CHOOSE k \in tags : \A m \in tags : k <= m)

\* the answers of the block's groups, in order
AnswersOf(restart) ==
  LET buffers == [g \in 1..Len(Groups) |-> AnswerBuffer(Groups[g], restart)]
      kept == SelectSeq(buffers, LAMBDA b : b # <<>>)
  IN  [k \in 1..Len(kept) |-> join(kept[k], BlankLine)]

\* C20: the answer of a group is the text of its last ANSWER_ line and the
\* continuation lines after it, and nothing collected before that line
C20_AnswerLineRestarts ==
  (platform = "telegram" /\ Parsed) => answers = AnswersOf(TRUE)

\* C20, amended: a group has one answer buffer, to which every ANSWER_ line adds
\* its text: the answer is the text of the first ANSWER_ line and of every
\* ANSWER_ and continuation line after it, in source order
C20_AnswerLinesAccumulate ==
  (platform = "telegram" /\ Parsed) => answers = AnswersOf(FALSE)

\* a group with two ANSWER_ lines was delivered in three messages
C20_Witness ==
  /\ platform = "telegram"
  /\ Finished
  /\ stdout = Output("ok", "telegram", BodyLines(<<"QAA">>))
  /\ Len(TextsOf(1)) = 3

\* the question of the group g: the text of its last QUESTION_ line, or of its
\* last QUESTION_ line that has text after the ':::'
QuestionOf(g, withText) ==
  LET lines == split(trim(g), NL)
      tags == {k \in 1..Len(lines) :
                 /\ startsWith(lines[k], QUESTION_)
                 /\ withText => secondField(lines[k]) # <<>>}
  IN  IF tags = {} THEN <<>>
      ELSE trim(secondField(lines[CHOOSE k \in tags : \A m \in tags : k >= m]))

\* the questions of the block's groups, in order
QuestionsOf(withText) ==
  LET found == [g \in 1..Len(Groups) |-> QuestionOf(Groups[g], withText)]
  IN  SelectSeq(found, LAMBDA q : q # <<>>)

\* C21: a group's question is the trimmed text of its last QUESTION_ line,
\* before or after the ANSWER_ line, and a QUESTION_ line adds nothing to the
\* answer buffer
C21_LastQuestionLine ==
  (platform = "telegram" /\ Parsed) =>
    /\ questions = QuestionsOf(FALSE)
    /\ answers = AnswersOf(FALSE)

\* C21, amended: a group's question is the trimmed text of its last QUESTION_
\* line that has text after the ':::' (a QUESTION_ line without text leaves the
\* question as it was), and a QUESTION_ line adds nothing to the answer buffer
C21_LastQuestionLineWithText ==
  (platform = "telegram" /\ Parsed) =>
    /\ questions = QuestionsOf(TRUE)
    /\ answers = AnswersOf(FALSE)

\* a group with a QUESTION_ line after its ANSWER_ line was delivered under the
\* later question, with the continuation line after it in the answer
C21_Witness ==
  /\ platform = "telegram"
  /\ Finished
  /\ stdout = Output("ok", "telegram", BodyLines(<<"QAQ">>))
  /\ questions = <<LaterText(1)>>
  /\ answers = <<AnswerText(1) \o BlankLine \o MoreText(1)>>
  /\ Len(TextsOf(1)) = 2

\* the offset of the last '. ' or newline inside the first chunkSize characters
\* of the text r, -1 when there is none
LastBreak(r) ==
  LET window == substring(r, 0, chunkSize)
      at == {b \in 0..(Len(window) - 1) :
               \/ <<window[b + 1]>> = NL
               \/ window[b + 1] = "." /\ b + 2 <= Len(window) /\ window[b + 2] = " "}
  IN  IF at = {} THEN 0 - 1 ELSE CHOOSE b \in at : \A c \in at : b >= c

\* the chunk the rule cuts from r: all of r when it fits, the text up to and
\* including the breakpoint when the breakpoint lies far enough in (at or past
\* seven tenths of chunkSize when `included`, past it otherwise), else the
\* first chunkSize characters
ExpectedCut(r, included) ==
  LET b == LastBreak(r)
      far == IF included THEN b * 10 >= chunkSize * BreakTenths
                         ELSE b * 10 > chunkSize * BreakTenths
  IN  IF Len(r) <= chunkSize THEN r
      ELSE IF far THEN substring(r, 0, b + 1)
      ELSE substring(r, 0, chunkSize)

\* every chunk of the list is the expected cut of what was left before it
RECURSIVE CutAsExpected(_, _, _)
CutAsExpected(r, chunks, included) ==
  \/ chunks = <<>>
  \/ /\ Head(chunks) = ExpectedCut(r, included)
     /\ CutAsExpected(restAfter(r, Head(chunks)), Tail(chunks), included)

\* the handler is sending the chunks of record i + 1
SendingChunks == pc = "chunks" \/ (pc = "await" /\ resume = "chunks")

\* C22: a chunk is cut at the last '. ' or newline whenever that breakpoint's
\* offset is at least 0.7 * 1850 = 1295, the offset 1295 included, and is a
\* hard cut of 1850 characters otherwise
C22_BreakAtOrPastFraction ==
  SendingChunks => CutAsExpected(answers[i + 1], answerChunks, TRUE)

\* C22, amended: a chunk is cut at the last '. ' or newline whenever that
\* breakpoint's offset is greater than 1295, and is a hard cut of 1850
\* characters otherwise, the offset 1295 included
C22_BreakPastFraction ==
  SendingChunks => CutAsExpected(answers[i + 1], answerChunks, FALSE)

\* an answer whose last '. ' is at offset 1295 was cut after 1850 characters
C22_Witness ==
  /\ SendingChunks
  /\ LastBreak(answers[i + 1]) * 10 = chunkSize * BreakTenths
  /\ Len(answerChunks) = 2
  /\ Len(answerChunks[1]) = chunkSize

\* C23: when the dispatch ends without a delivery failure, the count in the
\* success log is the number of records for which messages were sent
C23_ReportedCount ==
  (Finished /\ reported # <<>>) => reported = <<Cardinality(DeliveredRecords)>>

\* the start marker or the end marker occurs more than once in stdout
DuplicatedMarkers ==
  \/ Cardinality(Occurrences(stdout, StartMarker(platform))) > 1
  \/ Cardinality(Occurrences(stdout, EndMarker(platform))) > 1

\* the match has been tried on the subprocess's output
Matched == stdout # <<>> /\ pc # "parse"

\* what follows the first well-formed opening in stdout, when there is one
AfterFirstOpening ==
  LET open == Opening(StartMarker(platform))
      at == indexOf(stdout, open)
  IN  IF at < 0 THEN <<>> ELSE substring(stdout, at + Len(open), Len(stdout))

\* the text from the first well-formed opening to the first well-formed closing
\* after it, when both are there
FirstBlock ==
  LET at == indexOf(AfterFirstOpening, Closing(EndMarker(platform)))
  IN  IF at < 0 THEN <<>> ELSE substring(AfterFirstOpening, 0, at)

\* C24: when the start marker or the end marker occurs more than once, no block
\* is produced and the handler takes the no-block path
C24_DuplicatedMarkersNoBlock ==
  (Matched /\ DuplicatedMarkers) =>
    /\ questions = <<>>
    /\ answers = <<>>
    /\ hasCallback => Count({"noblock"}) = 1

\* C24, amended: when the start marker or the end marker occurs more than once,
\* the block is the text from the first well-formed opening to the first
\* well-formed closing after it, and the handler takes the no-block path only
\* when there is no such text
C24_DuplicatedMarkersFirstBlock ==
  (Matched /\ DuplicatedMarkers) =>
    IF FirstBlock # <<>>
    THEN /\ questions = parse(FirstBlock, platform).questions
         /\ answers = parse(FirstBlock, platform).answers
         /\ Count({"noblock"}) = 0
    ELSE /\ questions = <<>>
         /\ answers = <<>>
         /\ hasCallback => Count({"noblock"}) = 1

\* an output with the end marker twice and one well-formed block was delivered
C24_Witness ==
  /\ Finished
  /\ stdout \in TelegramRepeated \cup DiscordRepeated
  /\ Cardinality(Occurrences(stdout, EndMarker(platform))) = 2
  /\ DeliveredRecords = {1}

C26_TempFileDeleted ==
  (Ended /\ imagePath # <<>>) => ~imageFile

\* an exception was thrown inside the try body and the catch block has run
Caught == error # "none" /\ pc # "catch"

\* C27: after an exception in the handler (the download, the subprocess or a
\* rejected send) the callback is invoked once more and no more than once, with
\* the error notice; no record message, separator or notice follows the
\* exception; and the handler's promise rejects only when the send of the error
\* notice was rejected
C27_OneErrorNotice ==
  hasCallback =>
    /\ Count({"error"}) = IF Caught THEN 1 ELSE 0
    /\ \A k \in 1..Len(calls) :
         /\ calls[k].kind = "error" => k = Len(calls)
         /\ (calls[k].status = "rejected" /\ calls[k].kind # "error") =>
              /\ Len(calls) <= k + 1
              /\ Len(calls) = k + 1 => calls[k + 1].kind = "error"
    /\ error \in {"getFileLink failed", "download failed", "Command failed"} =>
         \A k \in 1..Len(calls) : calls[k].kind \in {"ack", "error"}
    /\ pc = "rejected" =>
         /\ calls[Len(calls)].kind = "error"
         /\ calls[Len(calls)].status = "rejected"

\* the send of the second record was rejected, the error notice was sent after
\* it and delivered, and the handler returned
C27_Witness ==
  /\ pc = "done"
  /\ Len(calls) >= 3
  /\ calls[Len(calls) - 1].kind = "record"
  /\ calls[Len(calls) - 1].rec = 2
  /\ calls[Len(calls) - 1].status = "rejected"
  /\ calls[Len(calls)].kind = "error"
  /\ calls[Len(calls)].status = "resolved"

\* the two fixed notices
FixedNotices == {"noblock", "noresults"}

\* C28: in one invocation at most one of the two fixed notices is sent, at most
\* once, and none in an invocation in which a message of a record was sent
C28_OneFixedNotice ==
  /\ Count(FixedNotices) <= 1
  /\ Count(RecordKinds) > 0 => Count(FixedNotices) = 0

\* a block with an answer and no question: the no-results notice was sent once,
\* and nothing else after the acknowledgment
C28_Witness ==
  /\ Finished
  /\ Parsed
  /\ Len(questions) = 0
  /\ Len(answers) = 1
  /\ Count(FixedNotices) = 1
  /\ Len(calls) = 2

\* the subprocess has ended: execAsync has resolved or rejected
SubprocessCompleted == stdout # <<>> \/ error = "Command failed"

\* what the handler sends from the subprocess's output
ResultKinds == DispatchKinds \cup FixedNotices \cup {"complete"}

\* the acknowledgment comes first and is delivered before the subprocess
\* starts, nothing made from the output is sent before the subprocess has
\* ended, and an event without a photo causes nothing
AckThenSubprocess ==
  /\ (hasPhoto /\ hasCallback) =>
       /\ Len(calls) >= 1 => calls[1].kind = "ack"
       /\ pc = "exec" =>
            Len(calls) = 1 /\ calls[1].kind = "ack" /\ calls[1].status = "resolved"
       /\ ~SubprocessCompleted =>
            \A k \in 1..Len(calls) : calls[k].kind \notin ResultKinds
  /\ ~hasPhoto =>
       /\ calls = <<>>
       /\ ~imageFile
       /\ imagePath = <<>>
       /\ stdout = <<>>
       /\ error = "none"
       /\ pc \in {"start", "done"}

\* this step deletes the temp file
Deletes == imageFile /\ ~imageFile'

\* C29: for an event with a photo and a callback the acknowledgment is the
\* first message and is sent before the subprocess starts; no result message,
\* no notice and no deletion of the temp file comes before the subprocess has
\* ended; an event without a photo causes no send, no file and no subprocess
C29_NothingBeforeSubprocessEnds ==
  [][/\ AckThenSubprocess
     /\ AckThenSubprocess'
     /\ Deletes => SubprocessCompleted]_vars

\* C29, amended: as C29, except that the download's error listener deletes the
\* partly written file when the download fails, before any subprocess
C29_NothingBeforeSubprocessEndsButListener ==
  [][/\ AckThenSubprocess
     /\ AckThenSubprocess'
     /\ Deletes => (SubprocessCompleted \/ (pc = "download" /\ pc' = "catch"))]_vars

\* after the acknowledgment and the subprocess two records were delivered and
\* the temp file was deleted
C29_Witness ==
  /\ Finished
  /\ SubprocessCompleted
  /\ calls[1].kind = "ack"
  /\ DeliveredRecords = {1, 2}
  /\ imagePath # <<>>
  /\ ~imageFile

\* C30: two invocations in progress at the same time never have the same temp
\* image path
C30_DistinctPaths ==
  (/\ ~Ended
   /\ other.pc \notin {"done", "rejected"}
   /\ imagePath # <<>>
   /\ other.imagePath # <<>>) => imagePath # other.imagePath

====
